---- MODULE Spec2Model ----
(***************************************************************************)
(* Model of the lead-discovery pipeline of lead_hunter.py (run_pipeline,   *)
(* the three platform scrapers, analyze_landing, the scoring) and of its   *)
(* HTTP front end app.py (api_scrape).                                     *)
(*                                                                         *)
(* The network is the environment: what a search page or a landing page    *)
(* holds, and whether a fetch succeeds, times out or fails, are chosen     *)
(* with \E in the actions.  Anchor texts, page titles and wall-clock       *)
(* values do not influence any control decision of the pipeline and are    *)
(* left out of the records.                                                *)
(***************************************************************************)
EXTENDS Integers, Sequences, FiniteSets, TLC

VARIABLES
    phase,              \* position of the request: idle, loop, sorting, done,
                        \* rejected, failed
    request,            \* the 'query' field of the request body
    query,              \* api_scrape's local query
    response,           \* HTTP status api_scrape answered with, 0 while none
    browser,            \* "none", "open", "closed"
    pageDoc,            \* anchors of the document the shared page currently holds
    pi,                 \* index in PLATFORMS of the platform being processed, 0 before the first
    candidates,         \* list returned by the scraper of platform pi
    ci,                 \* index of the next candidate of the inner loop
    results,            \* run_pipeline's results list
    per_platform,       \* run_pipeline's per_platform counter
    per_domain_count,   \* run_pipeline's per_domain_count counter
    sorted_results,     \* the list run_pipeline returns
    filesWritten,       \* TRUE once write_reports has written the report files
    html,               \* analyze_landing's local html of the last analysis
    analysis,           \* the record the last analyze_landing call returned
    lastStep            \* what the step just taken did: its name, the outcome of
                        \* its page.goto, whether the HTTP fallback ran, whether
                        \* the scraper read the document of an earlier navigation

vars == <<phase, request, query, response, browser, pageDoc, pi, candidates, ci, results,
          per_platform, per_domain_count, sorted_results, filesWritten, html,
          analysis, lastStep>>

-----------------------------------------------------------------------------
(* Bounds of the model.                                                    *)

\* The caps of the configuration, scaled down so that a run can reach them.
MAX_PER_PLATFORM == 2
MAX_PER_DOMAIN == 1

-----------------------------------------------------------------------------
(* Configuration.                                                          *)

PLATFORMS == <<"meta", "reddit", "linkedin">>

Platform == {PLATFORMS[i] : i \in 1..Len(PLATFORMS)}

\* Hosts are written as their sequence of labels.
SOCIAL_BLOCK_DOMAINS ==
    { <<"facebook", "com">>, <<"m", "facebook", "com">>, <<"whatsapp", "com">>,
      <<"wa", "me">>, <<"t", "me">>, <<"t", "co">>, <<"bit", "ly">>,
      <<"instagram", "com">>, <<"docs", "google", "com">>, <<"forms", "gle">>,
      <<"fb", "com">>, <<"metastatus", "com">> }

WEIGHTS ==
    [ has_email |-> 30, has_phone |-> 20, has_contact_page |-> 10,
      has_contact_form |-> 8, has_schema |-> 8, good_copy |-> 12, has_cta |-> 12 ]

-----------------------------------------------------------------------------
(* URLs.                                                                   *)
(*                                                                         *)
(* An href is a record:                                                    *)
(*   http    TRUE when the text starts with "http://" or "https://"        *)
(*   parses  FALSE when urlparse raises ValueError on it (an unbalanced    *)
(*           bracket in the host part, as in "http://[bad/")               *)
(*   host    the labels of the host                                        *)
(*   path    the path                                                      *)
(*   qs      TRUE when a query string follows the path                     *)
(*   target  0, or for a Meta redirect wrapper                             *)
(*           l.facebook.com/l.php?u=<percent-encoded https URL> the index  *)
(*           in Landings of the wrapped URL                                *)
(***************************************************************************)

Url(http, parses, host, path, qs) ==
    [http |-> http, parses |-> parses, host |-> host, path |-> path, qs |-> qs,
     target |-> 0]

\* The landing URLs of the model's web.
Landings ==
    << Url(TRUE, TRUE, <<"a", "com">>, "/offer", FALSE),
       Url(TRUE, TRUE, <<"www", "b", "com">>, "/", TRUE),
       Url(TRUE, TRUE, <<"www", "reddit", "com">>, "/r/x", FALSE),
       Url(TRUE, FALSE, <<"[bad">>, "/", FALSE) >>


\* s in net, on label sequences: s is a contiguous run of labels of net.
Contains(net, s) ==
    \E k \in 0..(Len(net) - Len(s)) : \A j \in 1..Len(s) : net[k + j] = s[j]

\* urlparse(url).netloc raised ValueError.
UrlparseRaises(url) == ~url.parses

is_blocked_social(url) ==
    IF UrlparseRaises(url) THEN FALSE
    ELSE \E s \in SOCIAL_BLOCK_DOMAINS : Contains(url.host, s)

\* tldextract's registered domain of a host: its last two labels, "" when the
\* host has no public suffix under it.
RegisteredDomain(host) ==
    IF Len(host) >= 2 THEN <<host[Len(host) - 1], host[Len(host)]>> ELSE <<>>

\* domain_of(url), as the set holding the value it returns.  Its `or` and its
\* except branch both evaluate urlparse(url).netloc, which raises again on a
\* URL that does not parse: {} stands for that exception leaving domain_of.
domain_of(url) ==
    IF RegisteredDomain(url.host) # <<>>
        THEN {RegisteredDomain(url.host)}
        ELSE IF UrlparseRaises(url) THEN {} ELSE {url.host}

\* landing.split("?")[0]
landing_norm(url) == [url EXCEPT !.qs = FALSE]

-----------------------------------------------------------------------------
(* Landing analysis.                                                       *)
(*                                                                         *)
(* A fetched body is described by what the extractors find in it:          *)
(* the emails and phones, the contact page, the three structure flags and  *)
(* copy_quality in tenths (copy_quality_score returns 0.0, 0.3, 0.6 or     *)
(* 1.0).  nonempty is FALSE for the empty string.                          *)
(***************************************************************************)

CopyQualities == {0, 3, 6, 10}

NoBody ==
    [nonempty |-> FALSE, emails |-> {}, phones |-> {}, contact_page |-> "None",
     has_contact_form |-> FALSE, has_schema |-> FALSE, has_cta |-> FALSE,
     copy_quality |-> 0]

Bodies ==
    [nonempty : {TRUE}, emails : {{}, {"info@a.com"}}, phones : {{}, {"+39 02 1234567"}},
     contact_page : {"None", "/contact"}, has_contact_form : BOOLEAN,
     has_schema : BOOLEAN, has_cta : BOOLEAN, copy_quality : CopyQualities]

Max(a, b) == IF a >= b THEN a ELSE b
Min(a, b) == IF a <= b THEN a ELSE b

\* raw is an integer here, so int(round(raw)) is raw.
normalize_score(raw) == Max(0, Min(100, raw))

\* int(info["copy_quality"] * WEIGHTS["good_copy"]): the float product
\* (3.5999999999999996, 7.199999999999999, 12.0) truncated toward zero, which
\* is the exact product of the tenths divided by ten and truncated.
CopyPoints(copy_quality) == (copy_quality * WEIGHTS.good_copy) \div 10

RawScore(info) ==
      (IF info.emails # {} THEN WEIGHTS.has_email ELSE 0)
    + (IF info.phones # {} THEN WEIGHTS.has_phone ELSE 0)
    + (IF info.contact_page # "None" THEN WEIGHTS.has_contact_page ELSE 0)
    + (IF info.has_contact_form THEN WEIGHTS.has_contact_form ELSE 0)
    + (IF info.has_schema THEN WEIGHTS.has_schema ELSE 0)
    + CopyPoints(info.copy_quality)
    + (IF info.has_cta THEN WEIGHTS.has_cta ELSE 0)

\* The info dict analyze_landing starts from.
DefaultInfo(landing_url) ==
    [url |-> landing_url, emails |-> {}, phones |-> {}, contact_page |-> "None",
     has_contact_form |-> FALSE, has_schema |-> FALSE, has_cta |-> FALSE,
     copy_quality |-> 0, score |-> 0]

\* FallbackAttempted with the fallback never run.
NoFallback(render) == FALSE

\* The requests fallback runs in the handler of PlayTimeoutError alone.
FallbackAttempted(render) == render = "timeout"

\* FetchedHtml reading page.content() after a failed page.goto too.
FetchedHtmlAfterFailure(render, http, body) ==
    IF render = "ok" \/ render = "error" THEN body
    ELSE IF FallbackAttempted(render) /\ http = "ok" THEN body
    ELSE NoBody

\* The html analyze_landing ends its fetch with: render is what page.goto did
\* ("ok", "timeout" for PlayTimeoutError, "error" for any other exception),
\* http what requests.get does when called ("ok" for status 200, "fail" for
\* another status or an exception), body what the server serves.
FetchedHtml(render, http, body) ==
    IF render = "ok" THEN body
    ELSE IF FallbackAttempted(render) /\ http = "ok" THEN body
    ELSE NoBody

\* The part of analyze_landing after the fetch.
AnalyzeHtml(landing_url, h) ==
    IF ~h.nonempty THEN DefaultInfo(landing_url)
    ELSE LET info == [DefaultInfo(landing_url) EXCEPT
                        !.emails = h.emails, !.phones = h.phones,
                        !.contact_page = h.contact_page,
                        !.has_contact_form = h.has_contact_form,
                        !.has_schema = h.has_schema, !.has_cta = h.has_cta,
                        !.copy_quality = h.copy_quality]
         IN [info EXCEPT !.score = normalize_score(RawScore(info))]

analyze_landing(landing_url, render, http, body) ==
    AnalyzeHtml(landing_url, FetchedHtml(render, http, body))

-----------------------------------------------------------------------------
(* Platform scrapers.                                                      *)
(*                                                                         *)
(* A rendered document is the sequence of its anchors' hrefs, in document  *)
(* order.                                                                  *)
(***************************************************************************)

Candidate(platform, landing) == [platform |-> platform, landing |-> landing]

\* The landing scrape_meta_ads derives from an href: the wrapped URL of a
\* redirect wrapper, the href itself otherwise.
MetaLanding(href) == IF href.target # 0 THEN Landings[href.target] ELSE href

\* Whether a scraper takes an href for an external landing, before dedup.
\* scrape_reddit and scrape_linkedin refuse the hrefs that name the
\* platform's own domain; scrape_meta_ads relies on the block list alone.
Accepts(platform, href) ==
    IF platform = "meta"
        THEN (href.http \/ href.target # 0) /\ ~is_blocked_social(MetaLanding(href))
        ELSE /\ href.http
             /\ ~Contains(href.host, <<platform, "com">>)
             /\ ~is_blocked_social(href)

LandingOf(platform, href) == IF platform = "meta" THEN MetaLanding(href) ELSE href

\* The loop of a scraper from anchor i on: seen is the set of dedup keys,
\* out the list built so far.
RECURSIVE ScrapeFrom(_, _, _, _, _, _)
ScrapeFrom(platform, doc, i, seen, out, max_items) ==
    IF i > Len(doc) \/ Len(out) >= max_items THEN out
    ELSE LET landing == LandingOf(platform, doc[i])
         IN IF ~Accepts(platform, doc[i]) \/ landing_norm(landing) \in seen
                THEN ScrapeFrom(platform, doc, i + 1, seen, out, max_items)
                ELSE ScrapeFrom(platform, doc, i + 1, seen \cup {landing_norm(landing)},
                                Append(out, Candidate(platform, landing)), max_items)

\* scrape_meta_ads, scrape_reddit, scrape_linkedin on the document the page
\* holds after their page.goto.
Scrape(platform, doc, max_items) == ScrapeFrom(platform, doc, 1, {}, <<>>, max_items)

\* The redirect wrapper around the second landing.
Wrapper ==
    [Url(TRUE, TRUE, <<"l", "facebook", "com">>, "/l.php", TRUE) EXCEPT !.target = 2]

\* The documents a search page of the model's web can render to: no anchor;
\* two landings of different domains; a wrapper, a landing and a link to
\* reddit; a repeated landing; a URL that does not parse before and after
\* a landing; one landing.
SearchDocs ==
    { <<>>,
      <<Landings[1], Landings[2]>>,
      <<Wrapper, Landings[1], Landings[3]>>,
      <<Landings[3], Landings[1], Landings[1]>>,
      <<Landings[4], Landings[1]>>,
      <<Landings[1], Landings[4]>>,
      <<Landings[2]>> }

\* The anchors a landing page can hold.
LandingDocs == {<<>>, <<Landings[2]>>}

\* The document the page holds after page.goto: the requested one when the
\* call returned; after PlayTimeoutError the document the page held (nothing
\* was committed) or the part of the requested one that had loaded; after
\* another failure the document the page held or the empty error page.
PageAfterGoto(goto, held, requested) ==
    IF goto = "ok" THEN requested
    ELSE IF goto = "timeout" THEN requested \cup {held}
    ELSE {held, <<>>}

-----------------------------------------------------------------------------
(* run_pipeline.                                                           *)

\* The registered domains of the model's web: the keys per_domain_count takes.
Domains == UNION {domain_of(Landings[i]) : i \in 1..Len(Landings)}

\* Lead with the platform of the first configured source instead of the
\* platform being processed.
LeadOfFirstPlatform(platform, cand, dom, info, n) ==
    [platform |-> PLATFORMS[1], landing |-> cand.landing, domain |-> dom,
     analysis |-> info, collected_at |-> n]

\* The lead dict.  collected_at is the position of the lead in the order of
\* collection: POLITE_SLEEP separates two leads by a second, the resolution
\* of the time format.
Lead(platform, cand, dom, info, n) ==
    [platform |-> platform, landing |-> cand.landing, domain |-> dom,
     analysis |-> info, collected_at |-> n]

\* DomainFull with > for >=.
DomainFullOffByOne(count, dom) == count[dom] > MAX_PER_DOMAIN

\* The guard of the candidate loop on per_domain_count.
DomainFull(count, dom) == count[dom] >= MAX_PER_DOMAIN

\* The guard of the candidate loop on per_platform.
PlatformFull(count, platform) == count[platform] >= MAX_PER_PLATFORM

\* counter[key] += 1
Incremented(counter, key) == [counter EXCEPT ![key] = @ + 1]

\* AfterAnalysisError with the counter incremented before the analysis ran.
AfterAnalysisErrorCounted(counter, key) == Incremented(counter, key)

\* A counter after the except branch around analyze_landing: the branch
\* continues with the next candidate and touches nothing.
AfterAnalysisError(counter, key) == counter

\* InsertByScore with > for >=: a lead goes before the leads of its score.
RECURSIVE InsertBeforeTies(_, _)
InsertBeforeTies(sorted, lead) ==
    IF sorted = <<>> THEN <<lead>>
    ELSE IF Head(sorted).analysis.score > lead.analysis.score
        THEN <<Head(sorted)>> \o InsertBeforeTies(Tail(sorted), lead)
        ELSE <<lead>> \o sorted

\* sorted(flat, key=lambda x: x[0], reverse=True) by insertion: a stable sort,
\* with reverse=True, keeps elements of equal key in their original order.
RECURSIVE InsertByScore(_, _)
InsertByScore(sorted, lead) ==
    IF sorted = <<>> THEN <<lead>>
    ELSE IF Head(sorted).analysis.score >= lead.analysis.score
        THEN <<Head(sorted)>> \o InsertByScore(Tail(sorted), lead)
        ELSE <<lead>> \o sorted

RECURSIVE SortByScore(_)
SortByScore(leads) ==
    IF leads = <<>> THEN <<>>
    ELSE InsertByScore(SortByScore(SubSeq(leads, 1, Len(leads) - 1)), leads[Len(leads)])

-----------------------------------------------------------------------------
(* api_scrape.                                                             *)

\* The request bodies: the value of their 'query' field, as its characters.
Queries == { <<>>, <<" ">>, <<" ", "q", " ">> }

RECURSIVE lstrip(_)
lstrip(str) ==
    IF str # <<>> /\ Head(str) = " " THEN lstrip(Tail(str)) ELSE str

RECURSIVE rstrip(_)
rstrip(str) ==
    IF str # <<>> /\ str[Len(str)] = " " THEN rstrip(SubSeq(str, 1, Len(str) - 1))
    ELSE str

\* strip left out.
NotStripped(str) == str

\* str.strip()
strip(str) == rstrip(lstrip(str))

-----------------------------------------------------------------------------
(* The state machine.                                                      *)

Step(op, goto, fallback, stale) ==
    [op |-> op, goto |-> goto, fallback |-> fallback, stale |-> stale]

\* A step without a fetch.
Did(op) == Step(op, "none", "none", FALSE)

Init ==
    /\ phase = "idle"
    /\ request \in Queries
    /\ query = <<>>
    /\ response = 0
    /\ browser = "none"
    /\ pageDoc = <<>>
    /\ pi = 0
    /\ candidates = <<>>
    /\ ci = 1
    /\ results = <<>>
    /\ per_platform = [p \in Platform |-> 0]
    /\ per_domain_count = [d \in Domains |-> 0]
    /\ sorted_results = <<>>
    /\ filesWritten = FALSE
    /\ html = NoBody
    /\ analysis = DefaultInfo(Landings[1])
    /\ lastStep = Did("none")

\* api_scrape with a query that is empty after strip: 400, run_pipeline is
\* not called.
ApiScrapeEmpty ==
    /\ phase = "idle"
    /\ strip(request) = <<>>
    /\ query' = strip(request)
    /\ response' = 400
    /\ phase' = "rejected"
    /\ lastStep' = Did("rejected")
    /\ UNCHANGED <<request, browser, pageDoc, pi, candidates, ci, results,
                   per_platform, per_domain_count, sorted_results, filesWritten,
                   html, analysis>>

\* api_scrape calls run_pipeline, which launches the browser and opens the
\* page; the platform loop has not started.
ApiScrapeRun ==
    /\ phase = "idle"
    /\ strip(request) # <<>>
    /\ query' = strip(request)
    /\ phase' = "loop"
    /\ browser' = "open"
    /\ lastStep' = Did("launch")
    /\ UNCHANGED <<request, response, pageDoc, pi, candidates, ci, results,
                   per_platform, per_domain_count, sorted_results, filesWritten,
                   html, analysis>>

\* CandidatesExhausted leaving the candidate loop after its first iteration.
ExhaustedAfterFirst(i, cands) == i > 1 \/ i > Len(cands)

\* `for cand in candidates` has no candidate left: i is the index of the
\* next one.
CandidatesExhausted(i, cands) == i > Len(cands)

\* One iteration head of `for platform in PLATFORMS`: the scraper of the next
\* platform runs on whatever the page holds after its page.goto.
Harvest ==
    /\ phase = "loop"
    /\ CandidatesExhausted(ci, candidates)
    /\ pi < Len(PLATFORMS)
    /\ LET platform == PLATFORMS[pi + 1] IN
       /\ pi' = pi + 1
       /\ ci' = 1
       /\ IF PlatformFull(per_platform, platform)
            THEN /\ candidates' = <<>>
                 /\ lastStep' = Did("platform_full")
                 /\ UNCHANGED pageDoc
            ELSE \E goto \in {"ok", "timeout", "error"} :
                 \E doc \in PageAfterGoto(goto, pageDoc, SearchDocs) :
                    /\ pageDoc' = doc
                    /\ lastStep' = Step("harvest", goto, "none",
                                        goto # "ok" /\ doc = pageDoc)
                    /\ candidates' = Scrape(platform, doc, MAX_PER_PLATFORM)
    /\ UNCHANGED <<phase, request, query, response, browser, results, per_platform,
                   per_domain_count, sorted_results, filesWritten, html, analysis>>

\* The guards of the candidate loop, in the order of the code: the name of
\* the guard that ends the iteration before the analysis, "raise" when
\* domain_of raises, "" when the candidate is analyzed.  (`if not landing`
\* has no case: every scraper builds landing from a non-empty href.)
Guard(platform, cand, pp, pd) ==
    IF PlatformFull(pp, platform) THEN "platform_full"
    ELSE IF is_blocked_social(cand.landing) THEN "blocked"
    ELSE IF domain_of(cand.landing) = {} THEN "raise"
    ELSE IF \E dom \in domain_of(cand.landing) : DomainFull(pd, dom) THEN "domain_full"
    ELSE ""

\* An iteration of the candidate loop that ends at one of its guards, by
\* break (platform_full) or by continue.
SkipCandidate ==
    /\ phase = "loop"
    /\ ci <= Len(candidates)
    /\ LET g == Guard(PLATFORMS[pi], candidates[ci], per_platform, per_domain_count)
       IN /\ g \in {"platform_full", "blocked", "domain_full"}
          /\ ci' = IF g = "platform_full" THEN Len(candidates) + 1 ELSE ci + 1
          /\ lastStep' = Did(g)
    /\ UNCHANGED <<phase, request, query, response, browser, pageDoc, pi, candidates,
                   results, per_platform, per_domain_count, sorted_results,
                   filesWritten, html, analysis>>

\* domain_of raises on the candidate's landing: nothing in run_pipeline
\* catches it, the with block closes the browser and api_scrape answers 500.
DomainOfRaises ==
    /\ phase = "loop"
    /\ ci <= Len(candidates)
    /\ Guard(PLATFORMS[pi], candidates[ci], per_platform, per_domain_count) = "raise"
    /\ phase' = "failed"
    /\ browser' = "closed"
    /\ response' = 500
    /\ lastStep' = Did("domain_of_raised")
    /\ UNCHANGED <<request, query, pageDoc, pi, candidates, ci, results, per_platform,
                   per_domain_count, sorted_results, filesWritten, html, analysis>>

\* What the network does during one analyze_landing call.
Renders == {"ok", "timeout", "error"}
Https == {"ok", "fail"}

\* The bodies the landing pages of the model's web serve during a run.
ServedBodies ==
    {NoBody} \cup
    {b \in Bodies : /\ b.phones = {} /\ b.contact_page = "None"
                    /\ ~b.has_contact_form /\ ~b.has_schema /\ ~b.has_cta
                    /\ (b.emails = {}) = (b.copy_quality = 3)
                    /\ b.copy_quality \in {0, 3}}

\* analyze_landing raises: page.content(), which runs outside the try block,
\* or the parsing of a fetched body fails.  Nothing can raise once html is
\* empty.  The except branch of the candidate loop continues with the next
\* candidate.
AnalysisRaises ==
    /\ phase = "loop"
    /\ ci <= Len(candidates)
    /\ LET platform == PLATFORMS[pi]
           cand == candidates[ci]
       IN /\ Guard(platform, cand, per_platform, per_domain_count) = ""
          /\ \E dom \in domain_of(cand.landing) :
                /\ per_platform' = AfterAnalysisError(per_platform, platform)
                /\ per_domain_count' = AfterAnalysisError(per_domain_count, dom)
          /\ \E render \in Renders, http \in Https :
             \E doc \in PageAfterGoto(render, pageDoc, LandingDocs) :
                /\ \E body \in ServedBodies : FetchedHtml(render, http, body).nonempty
                /\ pageDoc' = doc
                /\ lastStep' = Step("analysis_error", render,
                                    IF FallbackAttempted(render) THEN http ELSE "none",
                                    FALSE)
    /\ ci' = ci + 1
    /\ UNCHANGED <<phase, request, query, response, browser, pi, candidates, results,
                   sorted_results, filesWritten, html, analysis>>

\* An iteration of the candidate loop that reaches results.append: the
\* analysis returned, the lead is appended and both counters are incremented.
AppendLead ==
    /\ phase = "loop"
    /\ ci <= Len(candidates)
    /\ LET platform == PLATFORMS[pi]
           cand == candidates[ci]
       IN /\ Guard(platform, cand, per_platform, per_domain_count) = ""
          /\ \E render \in Renders, http \in Https, body \in ServedBodies :
             \E dom \in domain_of(cand.landing) :
             \E doc \in PageAfterGoto(render, pageDoc, LandingDocs) :
                /\ pageDoc' = doc
                /\ html' = FetchedHtml(render, http, body)
                /\ analysis' = analyze_landing(cand.landing, render, http, body)
                /\ lastStep' = Step("lead", render,
                                    IF FallbackAttempted(render) THEN http ELSE "none",
                                    FALSE)
                /\ results' = Append(results,
                                Lead(platform, cand, dom, analysis', Len(results) + 1))
                /\ per_platform' = Incremented(per_platform, platform)
                /\ per_domain_count' = Incremented(per_domain_count, dom)
    /\ ci' = ci + 1
    /\ UNCHANGED <<phase, request, query, response, browser, pi, candidates,
                   sorted_results, filesWritten>>

\* After the last platform: browser.close(), and the with block is left.
CloseBrowser ==
    /\ phase = "loop"
    /\ CandidatesExhausted(ci, candidates)
    /\ pi = Len(PLATFORMS)
    /\ browser' = "closed"
    /\ phase' = "sorting"
    /\ lastStep' = Did("closed")
    /\ UNCHANGED <<request, query, response, pageDoc, pi, candidates, ci, results,
                   per_platform, per_domain_count, sorted_results, filesWritten,
                   html, analysis>>

\* The sort, write_reports, and api_scrape answers with the list.
Finish ==
    /\ phase = "sorting"
    /\ sorted_results' = SortByScore(results)
    /\ filesWritten' = TRUE
    /\ response' = 200
    /\ phase' = "done"
    /\ lastStep' = Did("sorted")
    /\ UNCHANGED <<request, query, browser, pageDoc, pi, candidates, ci, results,
                   per_platform, per_domain_count, html, analysis>>

Next ==
    \/ ApiScrapeEmpty
    \/ ApiScrapeRun
    \/ Harvest
    \/ SkipCandidate
    \/ DomainOfRaises
    \/ AnalysisRaises
    \/ AppendLead
    \/ CloseBrowser
    \/ Finish

Spec == Init /\ [][Next]_vars

-----------------------------------------------------------------------------
(* analyze_landing alone, on every body.                                   *)

InitScore ==
    /\ phase = "fetched"
    /\ html \in Bodies \cup {NoBody}
    /\ request = <<>>
    /\ query = <<>>
    /\ response = 0
    /\ browser = "open"
    /\ pageDoc = <<>>
    /\ pi = 0
    /\ candidates = <<>>
    /\ ci = 1
    /\ results = <<>>
    /\ per_platform = [p \in Platform |-> 0]
    /\ per_domain_count = [d \in Domains |-> 0]
    /\ sorted_results = <<>>
    /\ filesWritten = FALSE
    /\ analysis = DefaultInfo(Landings[1])
    /\ lastStep = Did("none")

\* The part of analyze_landing that follows the fetch, on the html fetched.
Analyze ==
    /\ phase = "fetched"
    /\ analysis' = AnalyzeHtml(Landings[1], html)
    /\ phase' = "analyzed"
    /\ lastStep' = Did("analyzed")
    /\ UNCHANGED <<request, query, response, browser, pageDoc, pi, candidates, ci,
                   results, per_platform, per_domain_count, sorted_results,
                   filesWritten, html>>

SpecScore == InitScore /\ [][Analyze]_vars

-----------------------------------------------------------------------------
(* Properties.                                                             *)

\* The leads of the result list with a platform, with a domain.
LeadsOfPlatform(p) == {i \in 1..Len(results) : results[i].platform = p}
LeadsOfDomain(d) == {i \in 1..Len(results) : results[i].domain = d}

\* The candidate the step just taken was about.
LastCandidate == candidates[ci - 1]

\* C1: in every reachable state of a run, for every platform p, the
\* per-platform counter of p and the number of leads of the result list with
\* platform p are at most MAX_PER_PLATFORM.
C1_PlatformCap ==
    \A p \in Platform :
        /\ per_platform[p] <= MAX_PER_PLATFORM
        /\ Cardinality(LeadsOfPlatform(p)) <= MAX_PER_PLATFORM

\* The lead just appended fills the cap of its platform, whose scraper had
\* returned a full list, in a run that holds leads of another platform too.
C1_Witness ==
    /\ lastStep.op = "lead"
    /\ Cardinality(LeadsOfPlatform(PLATFORMS[pi])) = MAX_PER_PLATFORM
    /\ Len(candidates) = MAX_PER_PLATFORM
    /\ \E q \in Platform : q # PLATFORMS[pi] /\ LeadsOfPlatform(q) # {}

C3_SortedStable ==
    phase = "done" =>
        /\ Len(sorted_results) = Len(results)
        /\ \A i \in 1..Len(results) :
              \E j \in 1..Len(sorted_results) : sorted_results[j] = results[i]
        /\ \A i, j \in 1..Len(sorted_results) :
              i < j =>
                /\ sorted_results[i].analysis.score >= sorted_results[j].analysis.score
                /\ sorted_results[i].analysis.score = sorted_results[j].analysis.score
                      => sorted_results[i].collected_at < sorted_results[j].collected_at

\* A run returned three leads, two of them of equal score, in another order
\* than the order of collection.
C3_Witness ==
    /\ phase = "done"
    /\ Len(sorted_results) >= 3
    /\ sorted_results # results
    /\ \E i, j \in 1..Len(sorted_results) :
          /\ i < j
          /\ sorted_results[i].analysis.score = sorted_results[j].analysis.score

\* round(copy_quality * 12) on the tenths: the products 0, 3.6, 7.2 and 12
\* are no ties, so rounding is to the nearest integer.
RoundedCopyPoints(copy_quality) == (copy_quality * 12 + 5) \div 10

\* The score of the scoring rule: the weights of the signals present, plus
\* round(copy_quality * 12), clamped to 0..100.
RuleScore(h) ==
    Max(0, Min(100,
          (IF h.emails # {} THEN 30 ELSE 0)
        + (IF h.phones # {} THEN 20 ELSE 0)
        + (IF h.contact_page # "None" THEN 10 ELSE 0)
        + (IF h.has_contact_form THEN 8 ELSE 0)
        + (IF h.has_schema THEN 8 ELSE 0)
        + (IF h.has_cta THEN 12 ELSE 0)
        + RoundedCopyPoints(h.copy_quality)))

\* C4: for every signal bundle of a fetched landing page, the score
\* analyze_landing stores is the sum of the weights of the signals present
\* plus round(copy_quality * 12), clamped to 0..100.
C4_ScoreIsRule ==
    (phase = "analyzed" /\ html.nonempty) => analysis.score = RuleScore(html)

\* C5: when the landing fetch of an admitted candidate fails entirely (the
\* rendered load fails, and the fallback is not run, fails or brings an
\* empty body), analyze_landing returns the record with no email, no phone,
\* no contact page, the three flags false, copy_quality 0 and score 0, and
\* the lead of that candidate, holding that record, is the last of the
\* result list.
FetchFailedEntirely ==
    /\ lastStep.op \in {"lead", "analysis_error"}
    /\ lastStep.goto # "ok"
    /\ lastStep.fallback # "ok" \/ (lastStep.op = "lead" /\ ~html.nonempty)

C5_FailedFetchStillLead ==
    FetchFailedEntirely =>
        /\ lastStep.op = "lead"
        /\ analysis.emails = {} /\ analysis.phones = {}
        /\ analysis.contact_page = "None"
        /\ ~analysis.has_contact_form /\ ~analysis.has_schema /\ ~analysis.has_cta
        /\ analysis.copy_quality = 0 /\ analysis.score = 0
        /\ results # <<>>
        /\ results[Len(results)].analysis = analysis
        /\ results[Len(results)].landing = LastCandidate.landing
        /\ results[Len(results)].platform = LastCandidate.platform

\* The rendered load timed out, the fallback failed, and the lead is there.
C5_Witness ==
    /\ FetchFailedEntirely
    /\ lastStep.goto = "timeout"
    /\ lastStep.fallback = "fail"
    /\ results # <<>>
    /\ results[Len(results)].analysis.score = 0

\* C6 as stated: whenever the rendered fetch of the landing fails, by timeout
\* or by any other failure, the HTTP fallback has been attempted when
\* analyze_landing returns.
C6_FallbackAfterAnyFailure ==
    (lastStep.op = "lead" /\ lastStep.goto # "ok") => lastStep.fallback # "none"

\* C6 amended: whenever the rendered fetch of the landing times out, the HTTP
\* fallback has been attempted when analyze_landing returns, and the default
\* record is returned only if the fallback failed or brought an empty body;
\* after any other failure of the rendered fetch the default record is
\* returned without the fallback being attempted.
C6_FallbackAfterTimeout ==
    lastStep.op = "lead" =>
        /\ lastStep.goto = "timeout" =>
              /\ lastStep.fallback \in {"ok", "fail"}
              /\ lastStep.fallback = "fail" => ~html.nonempty /\ analysis.score = 0
        /\ lastStep.goto = "error" =>
              /\ lastStep.fallback = "none"
              /\ ~html.nonempty
              /\ analysis.score = 0

\* The rendered fetch timed out and the fallback brought a body that scores.
C6_Witness ==
    /\ lastStep.op = "lead"
    /\ lastStep.goto = "timeout"
    /\ lastStep.fallback = "ok"
    /\ analysis.score > 0

\* C7: when the page.goto of a scraper fails or times out and the page keeps
\* the document of an earlier navigation, the scraper returns no candidate.
C7_FailedSearchNoCandidates ==
    (lastStep.op = "harvest" /\ lastStep.goto # "ok" /\ lastStep.stale)
        => candidates = <<>>

\* C8: when the query of the request is empty after trimming, the pipeline
\* does not start: the browser is not launched, no source is harvested, no
\* lead is collected, no report file is written, and the request is answered
\* with the error status 400.
C8_EmptyQueryRejected ==
    (phase # "idle" /\ \A i \in 1..Len(request) : request[i] = " ") =>
        /\ phase = "rejected"
        /\ response = 400
        /\ browser = "none"
        /\ pi = 0
        /\ results = <<>>
        /\ ~filesWritten

\* A query of blanks was rejected.
C8_Witness ==
    /\ phase = "rejected"
    /\ request # <<>>
    /\ response = 400

\* C9: is_blocked_social returns true on every URL whose host cannot be
\* parsed, so no candidate with such a landing is among the scraped
\* candidates the loop of run_pipeline goes on with.
C9_MalformedIsBlocked ==
    \A i \in 1..Len(candidates) :
        UrlparseRaises(candidates[i].landing) => is_blocked_social(candidates[i].landing)

\* The counters are the numbers of leads of the result list.
CountersMatch ==
    /\ \A p \in Platform : per_platform[p] = Cardinality(LeadsOfPlatform(p))
    /\ \A d \in Domains : per_domain_count[d] = Cardinality(LeadsOfDomain(d))

\* C10: a step in which analyze_landing raises leaves the result list and
\* both counters as they were and moves to the next candidate of the same
\* source, the run going on; and at every point of a run each counter is the
\* number of leads of the result list with that platform, with that domain.
C10_ErrorTakesNoQuota ==
    [][ /\ CountersMatch'
        /\ lastStep'.op = "analysis_error" =>
              /\ results' = results
              /\ per_platform' = per_platform
              /\ per_domain_count' = per_domain_count
              /\ ci' = ci + 1
              /\ pi' = pi
              /\ candidates' = candidates
              /\ phase' = "loop" ]_vars

\* After an analysis raised, the next candidate of the same source has
\* become a lead.
C10_Witness ==
    /\ lastStep.op = "lead"
    /\ ci > 2
    /\ Cardinality(LeadsOfPlatform(PLATFORMS[pi])) = 1
    /\ domain_of(candidates[ci - 2].landing) # {}
    /\ \A d \in domain_of(candidates[ci - 2].landing) : per_domain_count[d] = 0

\* The place of a source in the configured order.
Rank(p) == CASE p = "meta" -> 1 [] p = "reddit" -> 2 [] p = "linkedin" -> 3

\* C11: the sources are processed one after another in the order meta,
\* reddit, linkedin: the scraper of the next source runs only when every
\* candidate of the current source has been through the candidate loop, with
\* the browser open; every lead is collected for the source being processed,
\* so the result list is in the order of the sources; the browser is closed
\* only after the last source is exhausted; and the sort, the reports and
\* the return come only after the browser is closed.
C11_SourcesInOrder ==
    [][ /\ pi' # pi =>
              /\ pi' = pi + 1
              /\ \A i \in 1..Len(candidates) : i < ci
              /\ browser = "open" /\ browser' = "open"
              /\ \A i \in 1..Len(candidates') : Rank(candidates'[i].platform) = pi'
        /\ results' # results =>
              /\ pi' = pi
              /\ Len(results') = Len(results) + 1
              /\ Rank(results'[Len(results')].platform) = pi
              /\ \A i \in 1..Len(results) : Rank(results'[i].platform) <= pi
        /\ (browser = "open" /\ browser' = "closed" /\ phase' # "failed") =>
              /\ pi = 3
              /\ \A i \in 1..Len(candidates) : i < ci
              /\ sorted_results' = <<>> /\ ~filesWritten' /\ response' = 0
        /\ (sorted_results' # sorted_results \/ filesWritten' # filesWritten
              \/ (phase' = "done" /\ phase # "done")) =>
              /\ browser = "closed"
              /\ pi = 3
              /\ results' = results ]_vars

\* A run returned leads of the three sources, the browser closed.
C11_Witness ==
    /\ phase = "done"
    /\ browser = "closed"
    /\ Len(sorted_results) = 3
    /\ \A p \in Platform : LeadsOfPlatform(p) # {}

====
